---- MODULE Spec2Model ----
(***************************************************************************)
(* Model of hunger_games.py: the Tribute state (vitals, position, decay),  *)
(* the four events (EventFight, EventMutts, EventFood, EventDrink) and the *)
(* GameMaker day loop (progress_time / run_game).                          *)
(*                                                                         *)
(* Two specifications share the variables:                                 *)
(*   Spec      the program as it runs: run_game calling progress_time;     *)
(*   SpecUnit  one call of a method of Tribute or of an event, made on     *)
(*             tributes whose vitals are drawn from bounded sets.          *)
(***************************************************************************)
EXTENDS Integers, FiniteSets, Sequences, TLC

\* ------------------------------------------------------------------ bounds
MaxDay == 3           \* run_game is followed for this many days
MaxHunger == 2        \* hunger given to the constructor: 0..MaxHunger
MaxThirst == 2        \* thirst given to the constructor: 0..MaxThirst
MaxHealth == 6        \* largest health given to the constructor

\* ------------------------------------------------------- program constants
GridLimit == 2        \* coordinates live in -GridLimit..GridLimit
DieSides == 6         \* random.randint(1,6)
DrawPenalty == 1      \* adjust_health(-1) of a drawn fight
EscapePenalty == 1    \* adjust_health(-1) of a loser that escapes
MuchStronger == 6     \* difference >= 6: the stronger always wins
SeverePenalty == 5    \* mutts, d6 in [2,3]
WoundPenalty == 3     \* mutts, d6 in [4,5]
GrazePenalty == 1     \* mutts, d6 in [6]
ForageGain == 2       \* hunger += 2 / thirst += 2
CareerBonus == 2
StrongBonus == 1
RangedBonus == 1
AllRemaining == -1    \* EventMutts.num_participants

\* the tributes that exist, in the order of the list given to GameMaker
roster_order == <<1, 2>>
Tributes == {roster_order[i] : i \in DOMAIN roster_order}
Axis == (0 - GridLimit)..GridLimit
Grid == Axis \X Axis
Events == {"EventFight", "EventMutts", "EventFood", "EventDrink"}

VARIABLES
    hunger,             \* Tribute.hunger, per tribute
    thirst,             \* Tribute.thirst
    health,             \* Tribute._health
    coords,             \* Tribute.coords as <<x, y>>
    tributes,           \* GameMaker.tributes: the roster
    day,                \* GameMaker.day
    dead_tributes,      \* GameMaker.dead_tributes: sequence of <<tribute, day>>
    currently_alive,    \* progress_time: who was alive when the day began
    remaining_tributes, \* progress_time: the uncommitted pool
    pc,                 \* where run_game stands
    ret,                \* value returned by the last call ("None" before any)
    winner,             \* tribute printed after "Winner:", 0 when none was printed
    error,              \* exception that ended the program, "none" otherwise
    selected_today,     \* history: how often each tribute was selected today
    pre,                \* history: the vitals just before the last operation
    op                  \* history: the last operation and its participants

vars == <<hunger, thirst, health, coords, tributes, day, dead_tributes,
          currently_alive, remaining_tributes, pc, ret, winner, error,
          selected_today, pre, op>>

tribVars == <<hunger, thirst, health, coords>>
gameVars == <<tributes, day, dead_tributes, currently_alive,
              remaining_tributes, pc, winner, selected_today>>

\* ---------------------------------------------------------------- Tribute
\* rank and trait never change after construction
rank(t) == IF t = 1 THEN 1 ELSE 5

trait(t) == IF t = 1 THEN {"Career", "Strong"} ELSE {"Ranged Fighter", "Coward"}

set_health(hl, t, new_health) == [hl EXCEPT ![t] = new_health]

\* the delta applied with the wrong sign
adjust_health_wrong_sign(hl, t, delta) == set_health(hl, t, hl[t] - delta)

adjust_health(hl, t, delta) == set_health(hl, t, hl[t] + delta)

kill(hl, t) == set_health(hl, t, 0)

is_dead(hl, t) == hl[t] <= 0

is_alive(hl, t) == ~is_dead(hl, t)

fighting_score(hg, th, hl, t) ==
    IF "Career" \in trait(t) THEN rank(t) + hg[t] + th[t] + hl[t] + CareerBonus
    ELSE IF "Strong" \in trait(t) THEN rank(t) + hg[t] + th[t] + hl[t] + StrongBonus
    ELSE IF "Ranged Fighter" \in trait(t) THEN rank(t) + hg[t] + th[t] + hl[t] + RangedBonus
    ELSE rank(t) + hg[t] + th[t] + hl[t]

\* the thirst test made on the thirst before the decrement
decay_health_stale_thirst(hg, th, hl, t) ==
    IF is_dead(hl, t) THEN hl
    ELSE LET starved == IF hg[t] - 1 <= 0
                        THEN adjust_health(hl, t, (hg[t] - 1) - 1)
                        ELSE hl
         IN  IF th[t] < 0 THEN kill(starved, t) ELSE starved

\* the starvation penalty computed from the hunger before the decrement
decay_health_stale_hunger(hg, th, hl, t) ==
    IF is_dead(hl, t) THEN hl
    ELSE LET starved == IF hg[t] - 1 <= 0
                        THEN adjust_health(hl, t, hg[t] - 1)
                        ELSE hl
         IN  IF th[t] - 1 < 0 THEN kill(starved, t) ELSE starved

\* Tribute.progress_time, the vitals: the health function after t's call
decay_health(hg, th, hl, t) ==
    IF is_dead(hl, t) THEN hl
    ELSE LET starved == IF hg[t] - 1 <= 0
                        THEN adjust_health(hl, t, (hg[t] - 1) - 1)
                        ELSE hl
         IN  IF th[t] - 1 < 0 THEN kill(starved, t) ELSE starved

\* hunger lowered for a dead tribute too
decay_hunger_of_the_dead(hg, hl, t) == [hg EXCEPT ![t] = @ - 1]

decay_hunger(hg, hl, t) == IF is_dead(hl, t) THEN hg ELSE [hg EXCEPT ![t] = @ - 1]

decay_thirst(th, hl, t) == IF is_dead(hl, t) THEN th ELSE [th EXCEPT ![t] = @ - 1]

\* the move made without looking at the grid limit
axis_steps_unclamped(c) == {-1, 0, 1}

\* Tribute.progress_time, the move: random.randint ranges per axis
axis_steps(c) == IF c = GridLimit THEN {-1, 0}
                 ELSE IF c = 0 - GridLimit THEN {0, 1}
                 ELSE {-1, 0, 1}

\* the positions a call can leave a tribute at (c itself: random() >= 0.5)
move_targets(hl, t, c) ==
    IF is_dead(hl, t) THEN {c}
    ELSE {c} \cup {<<c[1] + dx, c[2] + dy>> : dx \in axis_steps(c[1]), dy \in axis_steps(c[2])}

Snapshot == [hunger |-> hunger, thirst |-> thirst, health |-> health, coords |-> coords]

\* the d6 recorded for an operation that rolls none
NoRoll == [t \in Tributes |-> 1]

NoOp == [name |-> "none", tributes |-> {}, chosen |-> <<>>, zone |-> <<0, 0>>,
         roll |-> NoRoll]

Operation(name, list, chosen, zone) ==
    [name |-> name, tributes |-> list, chosen |-> chosen, zone |-> zone,
     roll |-> NoRoll]

\* ----------------------------------------------------------------- events
\* random.sample(list, k): the k-tuples of distinct members; none when k > len
sample(list, k) ==
    IF k = 1 THEN {<<a>> : a \in list}
    ELSE {<<a, b>> : a \in list, b \in list} \ {<<a, a>> : a \in list}

\* sorted(players, key=fighting_score, reverse=True)
stronger_of(hg, th, hl, players) ==
    IF fighting_score(hg, th, hl, players[1]) >= fighting_score(hg, th, hl, players[2])
    THEN players[1] ELSE players[2]

weaker_of(hg, th, hl, players) ==
    IF stronger_of(hg, th, hl, players) = players[1] THEN players[2] ELSE players[1]

score_difference(hg, th, hl, players) ==
    fighting_score(hg, th, hl, stronger_of(hg, th, hl, players))
        - fighting_score(hg, th, hl, weaker_of(hg, th, hl, players))

\* the upset allowed whatever the difference
fight_winner_always_random(hg, th, hl, players, upset) ==
    IF upset THEN weaker_of(hg, th, hl, players) ELSE stronger_of(hg, th, hl, players)

\* "Choose who wins the fight"; upset is random.random() >= 0.7
fight_winner(hg, th, hl, players, upset) ==
    IF score_difference(hg, th, hl, players) >= MuchStronger
    THEN stronger_of(hg, th, hl, players)
    ELSE IF upset THEN weaker_of(hg, th, hl, players)
         ELSE stronger_of(hg, th, hl, players)

fight_loser(hg, th, hl, players, upset) ==
    IF fight_winner(hg, th, hl, players, upset) = players[1] THEN players[2] ELSE players[1]

\* a draw that hurts the first player only
fight_draw_one_sided(hl, players) == adjust_health(hl, players[1], 0 - DrawPenalty)

\* the draw branch of EventFight.execute
fight_draw(hl, players) ==
    adjust_health(adjust_health(hl, players[1], 0 - DrawPenalty), players[2], 0 - DrawPenalty)

\* the else branch that raises ValueError("Logic error in fight calculation")
fight_logic_error(hg, th, hl, players) ==
    /\ fighting_score(hg, th, hl, players[1]) # fighting_score(hg, th, hl, players[2])
    /\ ~(score_difference(hg, th, hl, players) >= MuchStronger)
    /\ ~(0 < score_difference(hg, th, hl, players)
           /\ score_difference(hg, th, hl, players) < MuchStronger)

\* EventFight.execute: the health function it leaves; kills is random.random() < 0.5
fight_health(hg, th, hl, players, upset, kills) ==
    IF fighting_score(hg, th, hl, players[1]) = fighting_score(hg, th, hl, players[2])
    THEN fight_draw(hl, players)
    ELSE IF kills THEN kill(hl, fight_loser(hg, th, hl, players, upset))
         ELSE adjust_health(hl, fight_loser(hg, th, hl, players, upset), 0 - EscapePenalty)

\* every tribute of the list hit, wherever it stands
mutt_victims_whole_list(list, zone) == list

\* EventMutts.execute: tribute.coords == mutt_zone
mutt_victims(list, zone) == {t \in list : coords[t] = zone}

\* a 6 that costs as much as a 4 or a 5
mutt_outcome_costly_escape(hl, t, d6) ==
    IF d6 = 1 THEN kill(hl, t)
    ELSE IF d6 \in {2, 3} THEN adjust_health(hl, t, 0 - SeverePenalty)
    ELSE adjust_health(hl, t, 0 - WoundPenalty)

\* one victim's outcome for its own d6
mutt_outcome(hl, t, d6) ==
    IF d6 = 1 THEN kill(hl, t)
    ELSE IF d6 \in {2, 3} THEN adjust_health(hl, t, 0 - SeverePenalty)
    ELSE IF d6 \in {4, 5} THEN adjust_health(hl, t, 0 - WoundPenalty)
    ELSE adjust_health(hl, t, 0 - GrazePenalty)

\* the loop over the victims, roll[t] the d6 of victim t
mutts_health(hl, victims, roll) ==
    [t \in DOMAIN hl |-> IF t \in victims THEN mutt_outcome(hl, t, roll[t])[t] ELSE hl[t]]

\* food that feeds every tribute
food_hunger_everyone(hg, t) == [u \in DOMAIN hg |-> hg[u] + ForageGain]

food_hunger(hg, t) == [hg EXCEPT ![t] = @ + ForageGain]

drink_thirst(th, t) == [th EXCEPT ![t] = @ + ForageGain]

\* event(list).execute() with its random draws fixed
EventFight_execute(list, players, upset, kills) ==
    /\ players \in sample(list, 2)
    /\ ~fight_logic_error(hunger, thirst, health, players)
    /\ health' = fight_health(hunger, thirst, health, players, upset, kills)
    /\ UNCHANGED <<hunger, thirst, coords>>

EventMutts_execute(list, zone, roll) ==
    /\ health' = mutts_health(health, mutt_victims(list, zone), roll)
    /\ UNCHANGED <<hunger, thirst, coords>>

EventFood_execute(list, chosen) ==
    /\ chosen \in sample(list, 1)
    /\ hunger' = food_hunger(hunger, chosen[1])
    /\ UNCHANGED <<thirst, health, coords>>

EventDrink_execute(list, chosen) ==
    /\ chosen \in sample(list, 1)
    /\ thirst' = drink_thirst(thirst, chosen[1])
    /\ UNCHANGED <<hunger, health, coords>>

\* the rolls of a hazard: one d6 per tribute, read only for the victims
Rolls(victims) == {r \in [Tributes -> 1..DieSides] : \A t \in Tributes \ victims : r[t] = 1}

\* -------------------------------------------------------------- GameMaker
\* the dead not filtered out
living_tributes_unfiltered(hl) == tributes

\* the roster in list order is ascending
living_tributes(hl) == {t \in tributes : ~is_dead(hl, t)}

first_of(S) == CHOOSE t \in S : \A u \in S : t <= u

\* only EventMutts defines num_participants; EventBase, EventFight, EventFood
\* and EventDrink do not, so reading it on them raises AttributeError
has_num_participants(event) == event = "EventMutts"

num_participants(event) == CASE event = "EventMutts" -> AllRemaining

\* selected_tributes: all of the pool, or random.sample(pool, k) as a list
select_tributes(event, pool) ==
    IF num_participants(event) = AllRemaining THEN {pool}
    ELSE {S \in SUBSET pool : Cardinality(S) = num_participants(event)}

\* only the first selected tribute removed
remove_selected_first_only(pool, selected) == pool \ {first_of(selected)}

\* "for tribute in selected_tributes: remaining_tributes.remove(tribute)"
remove_selected(pool, selected) == pool \ selected

\* the pool an alias of the roster, so that removing from it shrinks the roster
roster_after_removal_aliased(roster, selected) == roster \ selected

\* self.tributes after the removal: the pool is a copy, the roster is untouched
roster_after_removal(roster, selected) == roster

\* event(selected_tributes).execute()
Execute(event, list) ==
    CASE event = "EventFight" ->
            \E players \in sample(list, 2), upset \in BOOLEAN, kills \in BOOLEAN :
                EventFight_execute(list, players, upset, kills)
      [] event = "EventMutts" ->
            \E zone \in Grid : \E roll \in Rolls(mutt_victims(list, zone)) :
                EventMutts_execute(list, zone, roll)
      [] event = "EventFood" ->
            \E chosen \in sample(list, 1) : EventFood_execute(list, chosen)
      [] event = "EventDrink" ->
            \E chosen \in sample(list, 1) : EventDrink_execute(list, chosen)

\* the dead of the whole roster taken, not those of currently_alive
died_today_whole_roster(alive_before, hl) ==
    LET Died(t) == t \in tributes /\ is_dead(hl, t)
        died == SelectSeq(roster_order, Died)
    IN  [i \in 1..Len(died) |-> <<died[i], day>>]

\* died_today, in the order of currently_alive, paired with the day
died_today(alive_before, hl) ==
    LET Died(t) == t \in alive_before /\ is_dead(hl, t)
        died == SelectSeq(roster_order, Died)
    IN  [i \in 1..Len(died) |-> <<died[i], day>>]

\* the steps every tribute's move may take this day
Steps == {-1, 0, 1} \X {-1, 0, 1}

InitGame ==
    /\ \E k \in 1..Len(roster_order) : tributes = {roster_order[i] : i \in 1..k}
    /\ hunger = [t \in Tributes |-> MaxHunger]
    /\ thirst = [t \in Tributes |-> MaxThirst]
    /\ health = [t \in Tributes |-> MaxHealth]
    /\ coords = [t \in Tributes |-> <<0, 0>>]
    /\ day = 0
    /\ dead_tributes = <<>>
    /\ currently_alive = {}
    /\ remaining_tributes = {}
    /\ pc = "idle"
    /\ ret = "None"
    /\ winner = 0
    /\ error = "none"
    /\ selected_today = [t \in Tributes |-> 0]
    /\ pre = [hunger |-> hunger, thirst |-> thirst, health |-> health, coords |-> coords]
    /\ op = NoOp

\* progress_time up to the dispatch loop: day += 1, the copy of who is alive,
\* tribute.progress_time() for every tribute of the roster, the pool
StartDay ==
    /\ pc = "idle"
    /\ day < MaxDay
    /\ day' = day + 1
    /\ currently_alive' = living_tributes(health)
    /\ hunger' = [t \in Tributes |->
                    IF t \in tributes THEN decay_hunger(hunger, health, t)[t] ELSE hunger[t]]
    /\ thirst' = [t \in Tributes |->
                    IF t \in tributes THEN decay_thirst(thirst, health, t)[t] ELSE thirst[t]]
    /\ health' = [t \in Tributes |->
                    IF t \in tributes THEN decay_health(hunger, thirst, health, t)[t]
                    ELSE health[t]]
    /\ \E d \in [Tributes -> Steps] :
          LET moved == [t \in Tributes |-> <<coords[t][1] + d[t][1], coords[t][2] + d[t][2]>>]
          IN  /\ \A t \in Tributes :
                    IF t \in tributes THEN moved[t] \in move_targets(health, t, coords[t])
                    ELSE d[t] = <<0, 0>>
              /\ coords' = moved
    /\ remaining_tributes' = living_tributes(health')
    /\ selected_today' = [t \in Tributes |-> 0]
    /\ pc' = "dispatch"
    /\ UNCHANGED <<tributes, dead_tributes, ret, winner, error, pre, op>>

\* one turn of "while len(remaining_tributes) > 0" with event drawn
Dispatch(event) ==
    /\ pc = "dispatch"
    /\ remaining_tributes # {}
    /\ IF ~has_num_participants(event)
       THEN /\ error' = "AttributeError"
            /\ pc' = "crashed"
            /\ UNCHANGED <<tribVars, tributes, remaining_tributes, selected_today>>
       ELSE IF Cardinality(remaining_tributes) < num_participants(event)
       THEN UNCHANGED <<tribVars, tributes, remaining_tributes, selected_today, pc, error>>
       ELSE \E selected \in select_tributes(event, remaining_tributes) :
              /\ Execute(event, selected)
              /\ remaining_tributes' = remove_selected(remaining_tributes, selected)
              /\ tributes' = roster_after_removal(tributes, selected)
              /\ selected_today' = [t \in Tributes |->
                                      IF t \in selected THEN selected_today[t] + 1
                                      ELSE selected_today[t]]
              /\ UNCHANGED <<pc, error>>
    /\ UNCHANGED <<day, dead_tributes, currently_alive, ret, winner, pre, op>>

\* the game-over test of progress_time: exactly one tribute alive
game_over(hl) == Cardinality(living_tributes(hl)) = 1

\* progress_time after the loop: game over, or the deaths of the day are recorded
EndDay ==
    /\ pc = "dispatch"
    /\ remaining_tributes = {}
    /\ IF game_over(health)
       THEN /\ winner' = first_of(living_tributes(health))
            /\ ret' = "False"
            /\ pc' = "over"
            /\ UNCHANGED dead_tributes
       ELSE /\ dead_tributes' = dead_tributes \o died_today(currently_alive, health)
            /\ ret' = "True"
            /\ pc' = "idle"
            /\ UNCHANGED winner
    /\ UNCHANGED <<tribVars, tributes, day, currently_alive, remaining_tributes,
                   error, selected_today, pre, op>>

Next == StartDay \/ (\E event \in Events : Dispatch(event)) \/ EndDay

Spec == InitGame /\ [][Next]_vars

\* ------------------------------------------------- the methods on their own
\* vitals and positions the constructor is given in SpecUnit
HealthInputs == {1 - SeverePenalty, 0, 1, MaxHealth}
CoordInputs == {<<0, 0>>, <<GridLimit, 0 - GridLimit>>}

InitUnit ==
    /\ hunger \in [Tributes -> 0..MaxHunger]
    /\ thirst \in [Tributes -> 0..MaxThirst]
    /\ health \in [Tributes -> HealthInputs]
    /\ coords \in [Tributes -> CoordInputs]
    /\ tributes = Tributes
    /\ day = 0
    /\ dead_tributes = <<>>
    /\ currently_alive = {}
    /\ remaining_tributes = {}
    /\ pc = "unit"
    /\ ret = "None"
    /\ winner = 0
    /\ error = "none"
    /\ selected_today = [t \in Tributes |-> 0]
    /\ pre = [hunger |-> hunger, thirst |-> thirst, health |-> health, coords |-> coords]
    /\ op = NoOp

\* what every direct call does to the history variables
\* one call is made on the constructed tributes
CanCall == pc = "unit" /\ error = "none" /\ op = NoOp

Called(name, list, chosen, zone) ==
    /\ pre' = Snapshot
    /\ op' = Operation(name, list, chosen, zone)
    /\ UNCHANGED gameVars

\* random.sample raises ValueError when the list is shorter than k
SampleFails(name, list) ==
    /\ Called(name, list, <<>>, <<0, 0>>)
    /\ error' = "ValueError"
    /\ UNCHANGED <<tribVars, ret>>

\* tribute.progress_time()
CallProgressTime(t) ==
    /\ CanCall
    /\ Called("progress_time", {t}, <<t>>, <<0, 0>>)
    /\ hunger' = decay_hunger(hunger, health, t)
    /\ thirst' = decay_thirst(thirst, health, t)
    /\ health' = decay_health(hunger, thirst, health, t)
    /\ \E c \in move_targets(health, t, coords[t]) : coords' = [coords EXCEPT ![t] = c]
    /\ ret' = IF is_alive(health', t) THEN "True" ELSE "False"
    /\ UNCHANGED error

\* tribute.kill()
CallKill(t) ==
    /\ CanCall
    /\ Called("kill", {t}, <<t>>, <<0, 0>>)
    /\ health' = kill(health, t)
    /\ ret' = "None"
    /\ UNCHANGED <<hunger, thirst, coords, error>>

\* EventFight(list).execute()
CallFight(list) ==
    /\ CanCall
    /\ IF sample(list, 2) = {} THEN SampleFails("EventFight", list)
       ELSE \E players \in sample(list, 2), upset \in BOOLEAN, kills \in BOOLEAN :
               /\ Called("EventFight", list, players, <<0, 0>>)
               /\ EventFight_execute(list, players, upset, kills)
               /\ ret' = "None"
               /\ UNCHANGED error

\* EventMutts(list).execute()
CallMutts(list) ==
    /\ CanCall
    /\ \E zone \in Grid : \E roll \in Rolls(mutt_victims(list, zone)) :
           /\ pre' = Snapshot
           /\ op' = [Operation("EventMutts", list, <<>>, zone) EXCEPT !.roll = roll]
           /\ UNCHANGED gameVars
           /\ EventMutts_execute(list, zone, roll)
           /\ ret' = "None"
           /\ UNCHANGED error

\* EventFood(list).execute()
CallFood(list) ==
    /\ CanCall
    /\ IF sample(list, 1) = {} THEN SampleFails("EventFood", list)
       ELSE \E chosen \in sample(list, 1) :
               /\ Called("EventFood", list, chosen, <<0, 0>>)
               /\ EventFood_execute(list, chosen)
               /\ ret' = "None"
               /\ UNCHANGED error

\* EventDrink(list).execute()
CallDrink(list) ==
    /\ CanCall
    /\ IF sample(list, 1) = {} THEN SampleFails("EventDrink", list)
       ELSE \E chosen \in sample(list, 1) :
               /\ Called("EventDrink", list, chosen, <<0, 0>>)
               /\ EventDrink_execute(list, chosen)
               /\ ret' = "None"
               /\ UNCHANGED error

\* the lists given to an event: the first k tributes, k >= 1
ParticipantLists == {{roster_order[i] : i \in 1..k} : k \in 1..Len(roster_order)}

NextUnit ==
    \/ \E t \in Tributes : CallProgressTime(t)
    \/ \E t \in Tributes : CallKill(t)
    \/ \E list \in ParticipantLists : CallFight(list)
    \/ \E list \in ParticipantLists : CallMutts(list)
    \/ \E list \in ParticipantLists : CallFood(list)
    \/ \E list \in ParticipantLists : CallDrink(list)

SpecUnit == InitUnit /\ [][NextUnit]_vars

\* ------------------------------------------------------------------ claims
Living == living_tributes(health)

Entries(t) == {i \in DOMAIN dead_tributes : dead_tributes[i][1] = t}

Returned == pc \in {"idle", "over"} /\ ret # "None"

\* C1: whenever progress_time has returned with at most one tribute alive
\* (one or none), it has returned False: it never returns True, the signal to
\* go on, with 0 or 1 tributes alive.
C1_EndsWithAtMostOneAlive ==
    (Returned /\ Cardinality(Living) <= 1) => ret = "False"

\* C2: within one day no tribute is selected for two events, and a tribute
\* that was selected has left the uncommitted pool, whether it died or not.
C2_SelectedAtMostOnce ==
    \A t \in Tributes :
        /\ selected_today[t] <= 1
        /\ selected_today[t] = 1 => t \notin remaining_tributes

\* C2 witness: a tribute was selected for an event and died in it
C2_SelectedAndDied ==
    \E t \in Tributes : selected_today[t] = 1 /\ is_dead(health, t) /\ t \in currently_alive
                        /\ pc = "dispatch"

\* C3: a tribute that is dead before an operation (progress_time, kill, an
\* event's execute) is dead after it: no operation brings it back to alive.
C3_DeathIsMonotonic ==
    \A t \in Tributes : is_dead(pre.health, t) => is_dead(health, t)

\* C3 witness: an operation changed the health of a tribute that was dead
C3_DeadTributeTouched ==
    \E t \in Tributes : /\ op # NoOp
                        /\ is_dead(pre.health, t)
                        /\ health[t] # pre.health[t]

\* C4: drawing an event type in the dispatch loop never raises an error.
C4_DrawNeverRaises == error = "none"

\* C5: when progress_time has returned False, every dead tribute of the roster
\* has exactly one entry in dead_tributes.
C5_TimelineCompleteAtEnd ==
    pc = "over" =>
        \A t \in tributes : is_dead(health, t) => Cardinality(Entries(t)) = 1

\* C6: when exactly one tribute was alive as the day started, the call ends
\* with False returned, that tribute printed as the winner, and no entry for
\* it in dead_tributes.
C6_SoleSurvivorWins ==
    (day >= 1 /\ Cardinality(currently_alive) = 1 /\ pc # "dispatch") =>
        /\ pc = "over"
        /\ ret = "False"
        /\ winner \in currently_alive
        /\ Entries(winner) = {}

\* C7: progress_time on an alive tribute lowers its hunger by 1 and its thirst
\* by 1, and when the thirst left is below 0 the tribute's health is 0 and the
\* call returns False, whatever its health was.
C7_DecayLowersGaugesAndThirstKills ==
    \A t \in Tributes :
        (op.name = "progress_time" /\ op.chosen = <<t>> /\ is_alive(pre.health, t)) =>
            /\ hunger[t] = pre.hunger[t] - 1
            /\ thirst[t] = pre.thirst[t] - 1
            /\ thirst[t] < 0 => (health[t] = 0 /\ ret = "False")

\* C7 witness: a tribute in full health, not starving, died of thirst
C7_HealthyTributeDiedOfThirst ==
    \E t \in Tributes : /\ op.name = "progress_time" /\ op.chosen = <<t>>
                        /\ pre.health[t] = MaxHealth
                        /\ hunger[t] > 0
                        /\ thirst[t] < 0
                        /\ health[t] = 0

PreScore(t) == fighting_score(pre.hunger, pre.thirst, pre.health, t)

Fought == op.name = "EventFight" /\ error = "none"

\* C8: a fight between two tributes of equal fighting score lowers the health
\* of each by exactly 1 (nobody's health is forced to 0) and leaves every
\* hunger and thirst unchanged.
C8_DrawCostsEachOneHealth ==
    (Fought /\ PreScore(op.chosen[1]) = PreScore(op.chosen[2])) =>
        /\ \A t \in Tributes :
              health[t] = IF t \in {op.chosen[1], op.chosen[2]}
                          THEN pre.health[t] - 1 ELSE pre.health[t]
        /\ hunger = pre.hunger
        /\ thirst = pre.thirst

\* C8 witness: a drawn fight between two healthy tributes
C8_DrawBetweenHealthyTributes ==
    /\ Fought
    /\ PreScore(op.chosen[1]) = PreScore(op.chosen[2])
    /\ pre.health[op.chosen[1]] > 1
    /\ pre.health[op.chosen[2]] > 1

\* C9: in a fight whose score gap is 6 or more the higher-scoring tribute
\* keeps its health, and the lower-scoring one has health 0 or has lost
\* exactly 1 health, for every random outcome.
C9_MuchStrongerAlwaysWins ==
    \A a, b \in Tributes :
        (Fought /\ {a, b} = {op.chosen[1], op.chosen[2]}
                /\ PreScore(a) - PreScore(b) >= MuchStronger) =>
            /\ health[a] = pre.health[a]
            /\ health[b] \in {0, pre.health[b] - 1}

\* C9 witness: the second player drawn was much stronger and killed a
\* healthy first player
C9_MuchStrongerKilled ==
    /\ Fought
    /\ PreScore(op.chosen[2]) - PreScore(op.chosen[1]) >= MuchStronger
    /\ pre.health[op.chosen[1]] > 1
    /\ health[op.chosen[1]] = 0

\* C10: EventFood raises the hunger of exactly one tribute of its list by
\* exactly 2 and EventDrink the thirst of exactly one by exactly 2; every
\* other gauge of every tribute is unchanged and nobody dies.
C10_ForageFeedsExactlyOne ==
    /\ (op.name = "EventFood" /\ error = "none") =>
          /\ Cardinality({t \in op.tributes : hunger[t] = pre.hunger[t] + ForageGain}) = 1
          /\ \A t \in Tributes : hunger[t] \in {pre.hunger[t], pre.hunger[t] + ForageGain}
          /\ \A t \in Tributes \ op.tributes : hunger[t] = pre.hunger[t]
          /\ thirst = pre.thirst /\ health = pre.health /\ coords = pre.coords
    /\ (op.name = "EventDrink" /\ error = "none") =>
          /\ Cardinality({t \in op.tributes : thirst[t] = pre.thirst[t] + ForageGain}) = 1
          /\ \A t \in Tributes : thirst[t] \in {pre.thirst[t], pre.thirst[t] + ForageGain}
          /\ \A t \in Tributes \ op.tributes : thirst[t] = pre.thirst[t]
          /\ hunger = pre.hunger /\ health = pre.health /\ coords = pre.coords

\* C10 witness: food found by one of two alive tributes of the list
C10_FoodFoundAmongTwo ==
    /\ op.name = "EventFood"
    /\ Cardinality(op.tributes) = 2
    /\ \A t \in op.tributes : is_alive(pre.health, t)
    /\ hunger[op.chosen[1]] = pre.hunger[op.chosen[1]] + ForageGain

Decayed(t) == op.name = "progress_time" /\ op.chosen = <<t>>

\* C11 as stated: after progress_time on an alive tribute, a hunger left at
\* or below 0 has lowered health by exactly the penalty hunger - 1, and a
\* hunger left above 0 leaves health unchanged unless thirst killed.
C11_StarvationPenaltyAlwaysShows ==
    \A t \in Tributes :
        (Decayed(t) /\ is_alive(pre.health, t)) =>
            /\ hunger[t] <= 0 => health[t] = pre.health[t] + (hunger[t] - 1)
            /\ hunger[t] > 0 => (health[t] = pre.health[t] \/ thirst[t] < 0)

\* C11 amended: after progress_time on an alive tribute whose thirst is left
\* at 0 or above, health is lowered by exactly the penalty hunger - 1 of the
\* decremented hunger when that hunger is at or below 0 and is unchanged when
\* it is above 0; when thirst is left below 0 health is 0 instead.
C11_StarvationPenaltyUnlessThirstKills ==
    \A t \in Tributes :
        (Decayed(t) /\ is_alive(pre.health, t)) =>
            health[t] = IF thirst[t] < 0 THEN 0
                        ELSE IF hunger[t] <= 0 THEN pre.health[t] + (hunger[t] - 1)
                        ELSE pre.health[t]

\* C11 witness: a tribute went from hunger 1 to hunger 0 and lost 1 health
C11_HungerOneToZeroCostsOne ==
    \E t \in Tributes : /\ Decayed(t)
                        /\ pre.hunger[t] = 1 /\ hunger[t] = 0
                        /\ thirst[t] >= 0
                        /\ pre.health[t] = MaxHealth
                        /\ health[t] = MaxHealth - 1

\* C12: the roster never changes: no step adds a tribute to it or removes
\* one from it, dead or alive.
C12_RosterNeverChanges == [][tributes' = tributes]_vars

\* C12 witness: a tribute that died on an earlier day is still in the roster
C12_DeadTributeStillInRoster ==
    \E t \in tributes : /\ is_dead(health, t)
                        /\ Entries(t) # {}
                        /\ day >= 2
                        /\ Cardinality(tributes) = Len(roster_order)

Abs(n) == IF n < 0 THEN 0 - n ELSE n

\* C13: every coordinate stays in -2..2; a step changes each axis by at most
\* 1, and a coordinate at 2 or -2 stays or steps inward.
C13_PositionStaysOnGrid ==
    [][\A t \in Tributes : \A i \in 1..2 :
          /\ coords'[t][i] \in -2..2
          /\ Abs(coords'[t][i] - coords[t][i]) <= 1
          /\ coords[t][i] = 2 => coords'[t][i] \in {1, 2}
          /\ coords[t][i] = -2 => coords'[t][i] \in {-2, -1}]_vars

\* C13 witness: on the last day a tribute that was alive as the day began
\* stands in a corner of the grid
C13_TributeInCorner ==
    \E t \in currently_alive : /\ day = MaxDay
                               /\ coords[t] = <<2, -2>>

\* C14: progress_time on a dead tribute returns False and changes neither
\* its hunger, thirst, health or position, nor those of any other tribute.
C14_DecayOfDeadIsNoOp ==
    \A t \in Tributes :
        (Decayed(t) /\ is_dead(pre.health, t)) =>
            /\ ret = "False"
            /\ hunger = pre.hunger
            /\ thirst = pre.thirst
            /\ health = pre.health
            /\ coords = pre.coords

\* C14 witness: progress_time was called on a tribute with health below 0
C14_DecayCalledOnDead ==
    \E t \in Tributes : Decayed(t) /\ pre.health[t] < 0 /\ pre.hunger[t] > 0

PreVictims == {t \in op.tributes : pre.coords[t] = op.zone}

Hazard == op.name = "EventMutts"

\* C16: every tribute a hazard targets gets the outcome of its own d6:
\* 1 sets health to 0, 2 or 3 costs 5, 4 or 5 costs 3, 6 costs 1; a hazard
\* changes no hunger and no thirst.
C16_HazardOutcomeFollowsRoll ==
    Hazard =>
        /\ \A t \in PreVictims :
              health[t] = CASE op.roll[t] = 1 -> 0
                            [] op.roll[t] \in {2, 3} -> pre.health[t] - 5
                            [] op.roll[t] \in {4, 5} -> pre.health[t] - 3
                            [] op.roll[t] = 6 -> pre.health[t] - 1
        /\ hunger = pre.hunger
        /\ thirst = pre.thirst

\* C16 witness: two healthy tributes in the zone, one rolled 1, the other 6
C16_TwoVictimsTwoRolls ==
    /\ Hazard
    /\ Cardinality(PreVictims) = 2
    /\ \A t \in PreVictims : pre.health[t] = MaxHealth
    /\ \E t, u \in PreVictims : op.roll[t] = 1 /\ op.roll[u] = 6

\* C17: a hazard changes nothing of a tribute that is not in its list or
\* not at the drawn zone.
C17_HazardSparesOtherPositions ==
    Hazard =>
        \A t \in Tributes \ PreVictims :
            /\ health[t] = pre.health[t]
            /\ hunger[t] = pre.hunger[t]
            /\ thirst[t] = pre.thirst[t]
            /\ coords[t] = pre.coords[t]

\* C17 witness: a tribute of the list stood away from the zone while an
\* alive tribute at the zone was hurt
C17_OneHitOneAway ==
    /\ Hazard
    /\ \E t \in op.tributes : pre.coords[t] # op.zone /\ is_alive(pre.health, t)
    /\ \E u \in PreVictims : is_alive(pre.health, u) /\ health[u] < pre.health[u]

\* C18: the dispatch loop of a day is only ever left with the uncommitted
\* pool empty.
C18_LoopLeftWithPoolEmpty ==
    (day >= 1 /\ pc # "dispatch") => remaining_tributes = {}

\* C19: every tribute of the uncommitted pool is alive and was alive as the
\* day began; a tribute that is dead and was not selected today is not in it.
C19_PoolHoldsOnlyTheLiving ==
    \A t \in remaining_tributes :
        /\ t \in tributes
        /\ is_alive(health, t)
        /\ t \in currently_alive

\* C19 witness: decay killed a tribute that never entered the pool, while
\* another tribute waits in the pool
C19_DecayKilledOutsidePool ==
    /\ pc = "dispatch"
    /\ remaining_tributes # {}
    /\ \E t \in currently_alive \ remaining_tributes :
          is_dead(health, t) /\ selected_today[t] = 0

\* C20: a tribute created with thirst MaxThirst that finds no water is dead
\* once the decay of day MaxThirst + 1 is done, and at any time a tribute
\* whose thirst is below 0 is dead.
C20_DeadOfThirstInTime ==
    \A t \in tributes :
        /\ day >= MaxThirst + 1 => is_dead(health, t)
        /\ thirst[t] < 0 => is_dead(health, t)
        /\ thirst[t] >= MaxThirst - day

\* C20 witness: a tribute that no hazard had hurt died of thirst on day
\* MaxThirst + 1
C20_DiedOfThirstOnLastDay ==
    \E t \in currently_alive : /\ day = MaxThirst + 1
                               /\ thirst[t] = -1
                               /\ health[t] = 0

====
